---- MODULE Spec2Model ----
(***************************************************************************)
(* A model of the PDF converter backend: the DoS guardrail chain           *)
(* (payload size gate, per-client concurrency limiter, request timeout)    *)
(* and the convert / extract route pipeline (upload filter, signature      *)
(* validation, page loop, archive packaging).                              *)
(***************************************************************************)
EXTENDS Integers, Sequences, FiniteSets, TLC

(***************************************************************************)
(* Bounds of the model.                                                    *)
(***************************************************************************)
\* Number of requests that arrive at the server.
MaxReq == 2
\* The cap the concurrency limiter is constructed with (its maxConcurrent
\* parameter; the application passes 5).
MaxConcurrent == 1
\* Pages of a loaded document, and instructions in one page's operator list.
MaxPages == 2
MaxOps == 2

Reqs == 1..MaxReq

(***************************************************************************)
(* Program constants.                                                      *)
(***************************************************************************)
\* DEFAULT_DOS_CONFIG.maxBodySize, also what the application passes.
MaxBodySize == 15 * 1024 * 1024
\* DEFAULT_DOS_CONFIG.maxPdfPages
MaxPdfPages == 100

\* Connection addresses (req.ip) and the values an X-Forwarded-For header
\* can carry: the header is a comma-separated list, modelled as the sequence
\* of its trimmed entries; the empty sequence is an absent header.
Addrs == {"10.0.0.1", "10.0.0.2"}
ForwardedValues == {<<>>, <<"10.0.0.2", "10.0.0.1">>}

\* Content-Length headers as digit strings (the empty sequence would be an
\* absent header): 15728640 is the ceiling itself, 15728641 is one byte over.
ContentLengthHeaders ==
    { <<1, 5, 7, 2, 8, 6, 4, 0>>, <<1, 5, 7, 2, 8, 6, 4, 1>>,
      <<9, 9, 9, 9, 9, 9, 9, 9, 9>> }

VARIABLES
    concurrentRequests,   \* Map<string, number>: client key -> active count
    reqs,                 \* per request: inputs, response, timer, handler position
    job,                  \* one call of a PDF route, from upload to response
    call                  \* one call of a service function or of /images-to-pdf

vars == <<concurrentRequests, reqs, job, call>>

(***************************************************************************)
(* Helpers over the state.                                                 *)
(***************************************************************************)
\* concurrentRequests.get(k) || 0
MapGet(m, k) == IF k \in DOMAIN m THEN m[k] ELSE 0

\* concurrentRequests.set(k, v)
MapSet(m, k, v) == [x \in (DOMAIN m) \cup {k} |-> IF x = k THEN v ELSE m[x]]

\* concurrentRequests.delete(k)
MapDelete(m, k) == [x \in (DOMAIN m) \ {k} |-> m[x]]

\* parseInt(s, 10) of a digit string.
RECURSIVE ParseInt(_)
ParseInt(s) ==
    IF s = <<>> THEN 0
    ELSE 10 * ParseInt(SubSeq(s, 1, Len(s) - 1)) + s[Len(s)]

\* getClientIp: the first entry of X-Forwarded-For when the header is a
\* string, else the connection address.
GetClientIp(ip, forwarded) ==
    IF forwarded # <<>> THEN forwarded[1] ELSE ip

\* A request nobody has sent yet.
IdleReq ==
    [ pc            |-> "idle",     \* idle | rejected | handler | streaming | done
      ip            |-> "",
      clientIp      |-> "",         \* captured by the limiter's cleanup closure
      contentLength |-> <<>>,
      statusCode    |-> 0,          \* 0: no status written
      headersSent   |-> FALSE,
      ended         |-> FALSE,      \* res.end() was called
      finished      |-> FALSE,      \* 'finish' was emitted
      closed        |-> FALSE,      \* 'close' was emitted
      onCleanup     |-> FALSE,      \* the limiter's cleanup listens on finish/close
      timer         |-> "none",     \* none | armed | fired | cleared
      lowered       |-> 0 ]         \* history: how far this request's cleanup lowered the count

\* res.status(code).json(body): writes the head and ends the response.
Json(q, code) ==
    [q EXCEPT !.statusCode = code, !.headersSent = TRUE, !.ended = TRUE]

(***************************************************************************)
(* The guardrail chain.  A middleware maps a context                       *)
(* [map, q, next] to the context after it ran; next says whether it        *)
(* called next().                                                          *)
(***************************************************************************)
\* Faulty variant: the size gate compares with >= instead of >.
PayloadSizeLimiterOffByOne(maxSize, c) ==
    LET header == IF c.q.contentLength = <<>> THEN <<0>> ELSE c.q.contentLength
        contentLength == ParseInt(header)
    IN  IF contentLength >= maxSize
        THEN [c EXCEPT !.q = [Json(@, 413) EXCEPT !.pc = "rejected"],
                       !.next = FALSE]
        ELSE [c EXCEPT !.next = TRUE]

\* payloadSizeLimiter(maxSize)
PayloadSizeLimiter(maxSize, c) ==
    LET header == IF c.q.contentLength = <<>> THEN <<0>> ELSE c.q.contentLength
        contentLength == ParseInt(header)
    IN  IF contentLength > maxSize
        THEN [c EXCEPT !.q = [Json(@, 413) EXCEPT !.pc = "rejected"],
                       !.next = FALSE]
        ELSE [c EXCEPT !.next = TRUE]

\* Faulty variant: the limiter compares with > instead of >=.
ConcurrentRequestLimiterOffByOne(maxConcurrent, forwarded, c) ==
    LET clientIp == GetClientIp(c.q.ip, forwarded)
        currentCount == MapGet(c.map, clientIp)
    IN  IF currentCount > maxConcurrent
        THEN [c EXCEPT !.q = [Json(@, 429) EXCEPT
                                 !.pc = "rejected", !.clientIp = clientIp],
                       !.next = FALSE]
        ELSE [c EXCEPT !.map = MapSet(@, clientIp, currentCount + 1),
                       !.q = [@ EXCEPT !.clientIp = clientIp, !.onCleanup = TRUE],
                       !.next = TRUE]

\* Faulty variant: the limiter registers its cleanup before it decides, so a
\* refused request has one too.
ConcurrentRequestLimiterCleanupFirst(maxConcurrent, forwarded, c) ==
    LET clientIp == GetClientIp(c.q.ip, forwarded)
        currentCount == MapGet(c.map, clientIp)
    IN  IF currentCount >= maxConcurrent
        THEN [c EXCEPT !.q = [Json(@, 429) EXCEPT
                                 !.pc = "rejected", !.clientIp = clientIp,
                                 !.onCleanup = TRUE],
                       !.next = FALSE]
        ELSE [c EXCEPT !.map = MapSet(@, clientIp, currentCount + 1),
                       !.q = [@ EXCEPT !.clientIp = clientIp, !.onCleanup = TRUE],
                       !.next = TRUE]

\* concurrentRequestLimiter(maxConcurrent)
ConcurrentRequestLimiter(maxConcurrent, forwarded, c) ==
    LET clientIp == GetClientIp(c.q.ip, forwarded)
        currentCount == MapGet(c.map, clientIp)
    IN  IF currentCount >= maxConcurrent
        THEN [c EXCEPT !.q = [Json(@, 429) EXCEPT
                                 !.pc = "rejected", !.clientIp = clientIp],
                       !.next = FALSE]
        ELSE [c EXCEPT !.map = MapSet(@, clientIp, currentCount + 1),
                       !.q = [@ EXCEPT !.clientIp = clientIp, !.onCleanup = TRUE],
                       !.next = TRUE]

\* requestTimeout(timeoutMs): arms the timer and registers clearTimeout.
RequestTimeout(c) ==
    [c EXCEPT !.q = [@ EXCEPT !.timer = "armed"], !.next = TRUE]

\* dosProtection: the three gates in order, each run only when the one
\* before it called next().  The gates are synchronous, so the chain runs
\* to completion within one turn of the event loop.
DosProtection(r) ==
    /\ reqs[r].pc = "idle"
    /\ \A p \in Reqs : p < r => reqs[p].pc # "idle"
    /\ \E ip \in Addrs, forwarded \in ForwardedValues, cl \in ContentLengthHeaders :
         LET c0 == [map |-> concurrentRequests,
                    q |-> [IdleReq EXCEPT !.ip = ip, !.contentLength = cl],
                    next |-> TRUE]
             c1 == PayloadSizeLimiter(MaxBodySize, c0)
             c2 == IF c1.next THEN ConcurrentRequestLimiter(MaxConcurrent, forwarded, c1) ELSE c1
             c3 == IF c2.next THEN RequestTimeout(c2) ELSE c2
             q3 == IF c3.next THEN [c3.q EXCEPT !.pc = "handler"] ELSE c3.q
         IN  /\ concurrentRequests' = c3.map
             /\ reqs' = [reqs EXCEPT ![r] = q3]
    /\ UNCHANGED <<job, call>>

\* Faulty variant: the cleanup stores the lowered count and never deletes.
CleanupNeverDeletes(m, clientIp) ==
    MapSet(m, clientIp, MapGet(m, clientIp) - 1)

\* Faulty variant: the cleanup lowers the count of every client.
CleanupEveryClient(m, clientIp) ==
    [x \in { k \in DOMAIN m : m[k] > 1 } |-> m[x] - 1]

\* The limiter's cleanup closure.
Cleanup(m, clientIp) ==
    LET count == MapGet(m, clientIp)
    IN  IF count <= 1 THEN MapDelete(m, clientIp)
        ELSE MapSet(m, clientIp, count - 1)

\* The listeners of a response event, in registration order: the limiter's
\* cleanup (when the request was admitted), then the timeout's clearTimeout.
\* The result is the map and the request after they ran.
RunListeners(m, q) ==
    LET m2 == IF q.onCleanup THEN Cleanup(m, q.clientIp) ELSE m
    IN  [map |-> m2,
         q   |-> [q EXCEPT !.lowered = @ + (MapGet(m, q.clientIp) - MapGet(m2, q.clientIp)),
                           !.timer = IF @ = "armed" THEN "cleared" ELSE @]]

\* res emits 'finish': the response was handed to the network in full.
Finish(r) ==
    /\ reqs[r].ended /\ ~reqs[r].finished /\ ~reqs[r].closed
    /\ LET c == RunListeners(concurrentRequests, reqs[r])
       IN  /\ concurrentRequests' = c.map
           /\ reqs' = [reqs EXCEPT ![r] = [c.q EXCEPT !.finished = TRUE]]
    /\ UNCHANGED <<job, call>>

\* res emits 'close': after 'finish' when the response completed, or without
\* it when the connection was terminated first (client abort).
Close(r) ==
    /\ reqs[r].pc # "idle" /\ ~reqs[r].closed
    /\ LET c == RunListeners(concurrentRequests, reqs[r])
       IN  /\ concurrentRequests' = c.map
           /\ reqs' = [reqs EXCEPT ![r] = [c.q EXCEPT !.closed = TRUE]]
    /\ UNCHANGED <<job, call>>

\* Faulty variant: the timer callback answers without looking at headersSent.
TimerFireUnguarded(r) ==
    /\ reqs[r].timer = "armed"
    /\ reqs' = [reqs EXCEPT ![r] = [Json(reqs[r], 503) EXCEPT !.timer = "fired"]]
    /\ UNCHANGED <<concurrentRequests, job, call>>

\* The timeout's timer callback.
TimerFire(r) ==
    /\ reqs[r].timer = "armed"
    /\ reqs' = [reqs EXCEPT ![r] =
           [(IF ~reqs[r].headersSent THEN Json(reqs[r], 503) ELSE reqs[r])
               EXCEPT !.timer = "fired"]]
    /\ UNCHANGED <<concurrentRequests, job, call>>

\* Faulty variant: the handler's response replaces one that was already sent.
HandlerRespondUnguarded(r) ==
    /\ reqs[r].pc = "handler"
    /\ \E code \in {200, 500} :
         reqs' = [reqs EXCEPT ![r] = [Json(reqs[r], code) EXCEPT !.pc = "done"]]
    /\ UNCHANGED <<concurrentRequests, job, call>>

\* The route handler answers with one complete response (an error body from
\* the handler or the error middleware, or res.send of a finished buffer).
\* Writing a head that was already sent throws and changes nothing.
HandlerRespond(r) ==
    /\ reqs[r].pc = "handler"
    /\ \E code \in {200, 500} :
         reqs' = [reqs EXCEPT ![r] =
             [(IF ~reqs[r].headersSent THEN Json(reqs[r], code) ELSE reqs[r])
                 EXCEPT !.pc = "done"]]
    /\ UNCHANGED <<concurrentRequests, job, call>>

\* The route handler starts streaming an archive: archive.pipe(res) sends the
\* head with the first chunk.
HandlerStream(r) ==
    /\ reqs[r].pc = "handler"
    /\ ~reqs[r].headersSent
    /\ reqs' = [reqs EXCEPT ![r] =
           [@ EXCEPT !.pc = "streaming", !.statusCode = 200, !.headersSent = TRUE]]
    /\ UNCHANGED <<concurrentRequests, job, call>>

\* archive.finalize() ends the piped response.
HandlerEnd(r) ==
    /\ reqs[r].pc = "streaming"
    /\ reqs' = [reqs EXCEPT ![r] = [@ EXCEPT !.pc = "done", !.ended = TRUE]]
    /\ UNCHANGED <<concurrentRequests, job, call>>

(***************************************************************************)
(* File validation (utils/fileValidator.ts).  A buffer is the sequence of  *)
(* its bytes, a filename the sequence of its characters.                   *)
(***************************************************************************)
PdfSig == <<37, 80, 68, 70, 45>>                      \* %PDF-
PngSig == <<137, 80, 78, 71, 13, 10, 26, 10>>
JpegSigs == << <<255, 216, 255, 224>>, <<255, 216, 255, 225>>, <<255, 216, 255, 226>>,
               <<255, 216, 255, 227>>, <<255, 216, 255, 232>>, <<255, 216, 255, 219>>,
               <<255, 216, 255>> >>

\* FILE_TYPE_DEFINITIONS, in the order Object.entries walks it.
FILE_TYPE_DEFINITIONS ==
    << [key |-> "pdf", mimeTypes |-> {"application/pdf"},
        extensions |-> { <<".", "p", "d", "f">> },
        magicBytes |-> << PdfSig >>],
       [key |-> "png", mimeTypes |-> {"image/png"},
        extensions |-> { <<".", "p", "n", "g">> },
        magicBytes |-> << PngSig >>],
       [key |-> "jpeg", mimeTypes |-> {"image/jpeg", "image/jpg"},
        extensions |-> { <<".", "j", "p", "g">>, <<".", "j", "p", "e", "g">> },
        magicBytes |-> JpegSigs] >>

Definition(typeKey) ==
    CHOOSE d \in {FILE_TYPE_DEFINITIONS[i] : i \in DOMAIN FILE_TYPE_DEFINITIONS} :
        d.key = typeKey

\* matchesMagicBytes (every rule of the table has offset 0)
MatchesMagicBytes(buffer, rule) ==
    /\ Len(buffer) >= Len(rule)
    /\ \A i \in 1..Len(rule) : buffer[i] = rule[i]

\* detectFileType: the first type with a matching rule, or null
DetectFileType(buffer) ==
    LET hits == { i \in DOMAIN FILE_TYPE_DEFINITIONS :
                    \E k \in DOMAIN FILE_TYPE_DEFINITIONS[i].magicBytes :
                        MatchesMagicBytes(buffer, FILE_TYPE_DEFINITIONS[i].magicBytes[k]) }
    IN  IF hits = {} THEN "null"
        ELSE FILE_TYPE_DEFINITIONS[CHOOSE i \in hits : \A j \in hits : i <= j].key

\* String.prototype.toLowerCase on one character of a filename
LowerChar(ch) ==
    CASE ch = "P" -> "p" [] ch = "D" -> "d" [] ch = "F" -> "f"
      [] ch = "N" -> "n" [] ch = "G" -> "g" [] OTHER -> ch

\* String.prototype.toLowerCase on a declared MIME type
LowerMime(m) ==
    CASE m = "Application/PDF" -> "application/pdf" [] OTHER -> m

\* getExtension: from the last dot on, lower-cased; '' without a dot or
\* with the dot last
GetExtension(filename) ==
    LET dots == { i \in 1..Len(filename) : filename[i] = "." }
        lastDot == CHOOSE i \in dots : \A j \in dots : j <= i
    IN  IF dots = {} THEN <<>>
        ELSE IF lastDot = Len(filename) THEN <<>>
        ELSE [i \in 1..(Len(filename) - lastDot + 1) |-> LowerChar(filename[lastDot + i - 1])]

\* Faulty variant: validateFile trusts the declared type and extension and never
\* looks at the content.
ValidateFileDeclaredOnly(buffer, filename, mimeType, allowedTypes) ==
    LET allowedMimeTypes == UNION { Definition(t).mimeTypes : t \in allowedTypes }
        allowedExtensions == UNION { Definition(t).extensions : t \in allowedTypes }
        extension == GetExtension(filename)
        e2 == IF LowerMime(mimeType) \notin allowedMimeTypes THEN <<"invalid mime">> ELSE <<>>
        e3 == IF extension # <<>> /\ extension \notin allowedExtensions
              THEN <<"invalid extension">> ELSE <<>>
    IN  [isValid |-> e2 \o e3 = <<>>, detectedType |-> "null", errors |-> e2 \o e3]

\* Faulty variant: validateFile without the cross-validation of step 4.
ValidateFileNoCrossCheck(buffer, filename, mimeType, allowedTypes) ==
    IF Len(buffer) < 8
    THEN [isValid |-> FALSE, detectedType |-> "null", errors |-> <<"too small">>]
    ELSE
    LET detectedType == DetectFileType(buffer)
        allowedMimeTypes == UNION { Definition(t).mimeTypes : t \in allowedTypes }
        allowedExtensions == UNION { Definition(t).extensions : t \in allowedTypes }
        extension == GetExtension(filename)
        e1 == IF detectedType = "null" THEN <<"undetermined">>
              ELSE IF detectedType \notin allowedTypes THEN <<"content not allowed">>
              ELSE <<>>
        e2 == IF LowerMime(mimeType) \notin allowedMimeTypes THEN <<"invalid mime">> ELSE <<>>
        e3 == IF extension # <<>> /\ extension \notin allowedExtensions
              THEN <<"invalid extension">> ELSE <<>>
        errors == e1 \o e2 \o e3
    IN  [isValid |-> errors = <<>>, detectedType |-> detectedType, errors |-> errors]

\* validateFile: the result's errors are the tags of the messages pushed
ValidateFile(buffer, filename, mimeType, allowedTypes) ==
    IF Len(buffer) = 0
    THEN [isValid |-> FALSE, detectedType |-> "null", errors |-> <<"empty">>]
    ELSE IF Len(buffer) < 8
    THEN [isValid |-> FALSE, detectedType |-> "null", errors |-> <<"too small">>]
    ELSE
    LET detectedType == DetectFileType(buffer)
        allowedMimeTypes == UNION { Definition(t).mimeTypes : t \in allowedTypes }
        allowedExtensions == UNION { Definition(t).extensions : t \in allowedTypes }
        extension == GetExtension(filename)
        e1 == IF detectedType = "null" THEN <<"undetermined">>
              ELSE IF detectedType \notin allowedTypes THEN <<"content not allowed">>
              ELSE <<>>
        e2 == IF LowerMime(mimeType) \notin allowedMimeTypes THEN <<"invalid mime">> ELSE <<>>
        e3 == IF extension # <<>> /\ extension \notin allowedExtensions
              THEN <<"invalid extension">> ELSE <<>>
        e4 == IF detectedType # "null" /\ detectedType \in allowedTypes
              THEN (IF LowerMime(mimeType) \notin Definition(detectedType).mimeTypes
                    THEN <<"mime mismatch">> ELSE <<>>)
                   \o (IF extension # <<>> /\ extension \notin Definition(detectedType).extensions
                       THEN <<"extension mismatch">> ELSE <<>>)
              ELSE <<>>
        errors == e1 \o e2 \o e3 \o e4
    IN  [isValid |-> errors = <<>>, detectedType |-> detectedType, errors |-> errors]

\* validatePdf
ValidatePdf(buffer, filename, mimeType) ==
    ValidateFile(buffer, filename, mimeType, {"pdf"})

(***************************************************************************)
(* The page-count pre-scan (validatePdfComplexity).  What the scan sees in *)
(* the first megabyte of a buffer is modelled as the sequence of the       *)
(* tokens its two patterns react to.                                       *)
(***************************************************************************)
PageTok == [t |-> "Page", n |-> 0]        \* "/Type /Page" and a character other than s
PagesTok == [t |-> "Pages", n |-> 0]      \* "/Type /Pages"
CountTok(k) == [t |-> "Count", n |-> k]   \* "/Count k"

\* Faulty variant: a document of exactly maxPages pages is refused.
ValidatePdfComplexityStrict(buffer, content, maxPages) ==
    IF Len(buffer) < 5 THEN [valid |-> FALSE, pageCount |-> 0]
    ELSE
    LET pageMatches == Cardinality({ i \in DOMAIN content : content[i].t = "Page" })
        estimatedPages == IF pageMatches > 0 THEN pageMatches ELSE 1
        counts == { i \in DOMAIN content : content[i].t = "Count" }
        metadataPageCount ==
            IF counts = {} THEN 0
            ELSE content[CHOOSE i \in counts : \A j \in counts : i <= j].n
        pageCount == IF estimatedPages >= metadataPageCount THEN estimatedPages
                     ELSE metadataPageCount
    IN  [valid |-> pageCount < maxPages, pageCount |-> pageCount]

\* validatePdfComplexity
ValidatePdfComplexity(buffer, content, maxPages) ==
    IF Len(buffer) < 5 THEN [valid |-> FALSE, pageCount |-> 0]
    ELSE
    LET pageMatches == Cardinality({ i \in DOMAIN content : content[i].t = "Page" })
        estimatedPages == IF pageMatches > 0 THEN pageMatches ELSE 1
        counts == { i \in DOMAIN content : content[i].t = "Count" }
        metadataPageCount ==
            IF counts = {} THEN 0
            ELSE content[CHOOSE i \in counts : \A j \in counts : i <= j].n
        pageCount == IF estimatedPages >= metadataPageCount THEN estimatedPages
                     ELSE metadataPageCount
    IN  [valid |-> pageCount <= maxPages, pageCount |-> pageCount]

(***************************************************************************)
(* The uploads a call can carry.                                           *)
(***************************************************************************)
NoFile == [present |-> FALSE, buffer |-> <<>>, content |-> <<>>,
           originalname |-> <<>>, mimetype |-> ""]

Upload(buffer, content, name, mime) ==
    [present |-> TRUE, buffer |-> buffer, content |-> content,
     originalname |-> name, mimetype |-> mime]

PdfBytes == PdfSig \o <<49, 46, 55>>              \* %PDF-1.7
ShortPdfBytes == PdfSig \o <<49, 46>>             \* 7 bytes
NotPdfBytes == <<37, 80, 68, 70, 32, 49, 46, 55>> \* %PDF 1.7
JpegBytes == <<255, 216, 255, 224, 0, 16, 74, 70>>

NamePdf == <<"d", ".", "p", "d", "f">>
NameUpperPdf == <<"d", ".", "P", "D", "F">>
NameNoExt == <<"d">>
NamePng == <<"d", ".", "p", "n", "g">>

SmallContent == <<PagesTok, CountTok(2), PageTok, PageTok>>
HugeContent == <<PagesTok, CountTok(150), PageTok>>

Uploads ==
    { NoFile,
      Upload(PdfBytes, SmallContent, NamePdf, "application/pdf"),
      Upload(PdfBytes, HugeContent, NameUpperPdf, "application/pdf"),
      Upload(PdfBytes, SmallContent, NameNoExt, "application/pdf"),
      Upload(PdfBytes, SmallContent, NamePng, "application/pdf"),
      Upload(PdfBytes, SmallContent, NamePdf, "image/png"),
      Upload(PdfBytes, SmallContent, NamePdf, "Application/PDF"),
      Upload(ShortPdfBytes, <<>>, NamePdf, "application/pdf"),
      Upload(NotPdfBytes, SmallContent, NamePdf, "application/pdf"),
      Upload(NotPdfBytes, SmallContent, NameNoExt, "application/pdf"),
      Upload(PngSig, <<>>, NamePdf, "application/pdf"),
      Upload(PngSig, <<>>, NamePng, "image/png"),
      Upload(JpegBytes, <<>>, NamePdf, "application/pdf"),
      Upload(<<>>, <<>>, NamePdf, "application/pdf") }

Routes == {"convert", "extract", "pdf-to-docx"}

\* The format query parameter ("" is an absent parameter).
FormatParams == {"", "png", "JPEG", "gif"}

\* (req.query.format)?.toLowerCase() || 'png'
FormatParam(raw) ==
    CASE raw = "" -> "png" [] raw = "JPEG" -> "jpeg" [] OTHER -> raw

\* PDFConverterService.isValidFormat
IsValidFormat(format) == format = "png" \/ format = "jpeg"

(***************************************************************************)
(* One call of a PDF route.                                                *)
(***************************************************************************)
IdleJob ==
    [ pc          |-> "upload",  \* upload | validate | handler | load | pages | images
                                 \* | await | drain | failed | done | exited
      route       |-> "",
      file        |-> NoFile,    \* req.file
      format      |-> "",
      loadCalled  |-> FALSE,     \* history: loadPdfDocument was invoked
      numPages    |-> 0,
      pageNum     |-> 1,
      results     |-> <<>>,      \* convertedPages / extractedContent
      opCount     |-> 0,         \* operatorList.fnArray.length of the current page
      i           |-> 0,         \* index into the operator list
      images      |-> <<>>,      \* images of the current page
      imageIndex  |-> 1,
      painted     |-> <<>>,      \* history, per page: paint-image instructions met
      skipped     |-> <<>>,      \* history, per page: paint-image instructions skipped
      failure     |-> "none",    \* history: what threw (load | page)
      statusCode  |-> 0,         \* 0: no status written
      by          |-> "",        \* history: which stage answered
      zipHeaders  |-> FALSE,     \* Content-Type: application/zip was set
      archive     |-> <<>>,      \* entries appended to the archive
      written     |-> <<>>,      \* entries the archive has written to the response
      archiveError |-> "none",   \* none | caught | uncaught
      ended       |-> FALSE ]

\* File names.  `page-${pageNum}.${format}`
PageFilename(pageNum, format) ==
    [kind |-> "page", page |-> pageNum, index |-> 0, ext |-> format]

\* `page-${pageNum}-image-${imageIndex}.${format}`
ImageFilename(pageNum, imageIndex, format) ==
    [kind |-> "image", page |-> pageNum, index |-> imageIndex, ext |-> format]

\* `page-${pageNum}.txt`
TextFilename(pageNum) ==
    [kind |-> "text", page |-> pageNum, index |-> 0, ext |-> "txt"]

\* An archive entry: name, with dir the page whose images folder holds it
\* (0: the root of the archive).
Entry(dir, name) == [dir |-> dir, name |-> name]

\* res.status(code).json(body) of the call
JobJson(j, code, stage) ==
    [j EXCEPT !.statusCode = code, !.by = stage, !.ended = TRUE, !.pc = "done"]

\* upload.single('pdf') with pdfFileFilter: a file part is kept only when its
\* declared type is application/pdf; any other is refused with an error the
\* router's upload-error middleware answers with 400.
UploadSingle ==
    /\ job.pc = "upload"
    /\ \E route \in Routes, file \in Uploads, raw \in FormatParams :
         LET j == [job EXCEPT !.route = route,
                              !.format = IF route = "convert" THEN raw ELSE ""]
         IN  job' = IF ~file.present THEN [j EXCEPT !.pc = "validate"]
                    ELSE IF file.mimetype = "application/pdf"
                    THEN [j EXCEPT !.file = file, !.pc = "validate"]
                    ELSE JobJson(j, 400, "upload")
    /\ UNCHANGED <<concurrentRequests, reqs, call>>

\* validatePdfUpload
ValidatePdfUpload ==
    /\ job.pc = "validate"
    /\ job' = IF ~job.file.present THEN [job EXCEPT !.pc = "handler"]
              ELSE IF ~ValidatePdf(job.file.buffer, job.file.originalname,
                                   job.file.mimetype).isValid
              THEN JobJson(job, 400, "validatePdfUpload")
              ELSE [job EXCEPT !.pc = "handler"]
    /\ UNCHANGED <<concurrentRequests, reqs, call>>

\* The route handler up to its call of the service.
Handler ==
    /\ job.pc = "handler"
    /\ job' = IF ~job.file.present THEN JobJson(job, 400, "handler")
              ELSE IF job.route = "convert" /\ ~IsValidFormat(FormatParam(job.format))
              THEN JobJson(job, 400, "handler")
              ELSE [job EXCEPT !.pc = "load",
                               !.format = IF job.route = "convert"
                                          THEN FormatParam(job.format) ELSE ""]
    /\ UNCHANGED <<concurrentRequests, reqs, call>>

\* loadPdfDocument: pdfjs parses the buffer, or throws
LoadPdfDocument ==
    /\ job.pc = "load"
    /\ \/ \E n \in 1..MaxPages :
            job' = [job EXCEPT !.loadCalled = TRUE, !.numPages = n, !.pc = "pages"]
       \/ job' = [job EXCEPT !.loadCalled = TRUE, !.failure = "load", !.pc = "failed"]
    /\ UNCHANGED <<concurrentRequests, reqs, call>>

\* Faulty variant: convert opens the archive with the first page and appends each
\* page as soon as it is rasterized.
ConvertPageStreaming ==
    /\ job.pc = "pages" /\ job.route = "convert"
    /\ job.pageNum <= job.numPages
    /\ \/ job' = [job EXCEPT
               !.results = Append(@, [pageNumber |-> job.pageNum,
                                      filename |-> PageFilename(job.pageNum, job.format)]),
               !.zipHeaders = TRUE,
               !.archive = Append(@, Entry(0, PageFilename(job.pageNum, job.format))),
               !.pageNum = @ + 1]
       \/ job' = [job EXCEPT !.failure = "page", !.pc = "failed"]
    /\ UNCHANGED <<concurrentRequests, reqs, call>>

\* convertPdfToImages, one turn of its page loop: the page is fetched and
\* rasterized and its result pushed, or one of the two throws.
ConvertPage ==
    /\ job.pc = "pages" /\ job.route = "convert"
    /\ job.pageNum <= job.numPages
    /\ \/ job' = [job EXCEPT
               !.results = Append(@, [pageNumber |-> job.pageNum,
                                      filename |-> PageFilename(job.pageNum, job.format)]),
               !.pageNum = @ + 1]
       \/ job' = [job EXCEPT !.failure = "page", !.pc = "failed"]
    /\ UNCHANGED <<concurrentRequests, reqs, call>>

\* extractPdfContent, the start of one turn of its page loop: getPage, then
\* extractTextFromPage and extractImagesFromPage start together.  getPage,
\* getTextContent or getOperatorList may throw, which fails the whole call;
\* else the operator list has opCount instructions.
StartPage ==
    /\ job.pc = "pages" /\ job.route # "convert"
    /\ job.pageNum <= job.numPages
    /\ \/ \E n \in 0..MaxOps :
            job' = [job EXCEPT !.opCount = n, !.i = 0, !.images = <<>>, !.imageIndex = 1,
                               !.painted = Append(@, 0), !.skipped = Append(@, 0),
                               !.pc = "images"]
       \/ job' = [job EXCEPT !.failure = "page", !.pc = "failed"]
    /\ UNCHANGED <<concurrentRequests, reqs, call>>

\* What an instruction of the operator list turns out to be:
\*   other  not one of the three paint-image operators
\*   jpg    a paint-image operator whose object converts to a JPEG
\*   png    a paint-image operator whose object converts to a PNG
\*   null   page.objs.get hands the callback no object
\*   throw  reading the arguments, the lookup or the conversion throws
\*   never  page.objs.get never calls the callback
OpKinds == {"other", "jpg", "png", "null", "throw", "never"}

\* Faulty variant: an image that fails is not caught, and fails the page.
ImageOpAbort(j, kind) ==
    LET met == [j EXCEPT !.painted[j.pageNum] = @ + 1]
    IN  CASE kind = "other" -> [j EXCEPT !.i = @ + 1]
          [] kind \in {"jpg", "png"} ->
               [met EXCEPT
                  !.images = Append(@, [filename |-> ImageFilename(j.pageNum, j.imageIndex, kind),
                                        format |-> kind]),
                  !.imageIndex = @ + 1,
                  !.i = @ + 1]
          [] kind = "null" -> [met EXCEPT !.skipped[j.pageNum] = @ + 1, !.i = @ + 1]
          [] kind = "throw" -> [met EXCEPT !.failure = "page", !.pc = "failed"]
          [] OTHER -> [met EXCEPT !.pc = "await"]

\* Faulty variant: the image index advances on skipped instructions too.
ImageOpCountsSkipped(j, kind) ==
    LET met == [j EXCEPT !.painted[j.pageNum] = @ + 1]
    IN  CASE kind = "other" -> [j EXCEPT !.i = @ + 1]
          [] kind \in {"jpg", "png"} ->
               [met EXCEPT
                  !.images = Append(@, [filename |-> ImageFilename(j.pageNum, j.imageIndex, kind),
                                        format |-> kind]),
                  !.imageIndex = @ + 1,
                  !.i = @ + 1]
          [] kind \in {"null", "throw"} ->
               [met EXCEPT !.skipped[j.pageNum] = @ + 1, !.imageIndex = @ + 1, !.i = @ + 1]
          [] OTHER -> [met EXCEPT !.pc = "await"]

\* extractImagesFromPage, the body of its loop for one instruction
ImageOp(j, kind) ==
    LET met == [j EXCEPT !.painted[j.pageNum] = @ + 1]
    IN  CASE kind = "other" -> [j EXCEPT !.i = @ + 1]
          [] kind \in {"jpg", "png"} ->
               [met EXCEPT
                  !.images = Append(@, [filename |-> ImageFilename(j.pageNum, j.imageIndex, kind),
                                        format |-> kind]),
                  !.imageIndex = @ + 1,
                  !.i = @ + 1]
          [] kind \in {"null", "throw"} ->
               [met EXCEPT !.skipped[j.pageNum] = @ + 1, !.i = @ + 1]
          [] OTHER -> [met EXCEPT !.pc = "await"]

ImageStep ==
    /\ job.pc = "images"
    /\ job.i < job.opCount
    /\ \E kind \in OpKinds : job' = ImageOp(job, kind)
    /\ UNCHANGED <<concurrentRequests, reqs, call>>

\* Faulty variant: extract opens the archive with the first page and appends each
\* page's entries as soon as the page is extracted.
EndPageStreaming ==
    /\ job.pc = "images"
    /\ job.i = job.opCount
    /\ job' = [job EXCEPT
           !.results = Append(@, [pageNumber |-> job.pageNum,
                                 textContent |-> job.pageNum,
                                 images |-> job.images]),
           !.zipHeaders = (job.route = "extract"),
           !.archive = IF job.route = "extract"
                       THEN Append(@, [dir |-> 0,
                                       name |-> [kind |-> "text", page |-> job.pageNum,
                                                 index |-> 0, ext |-> "txt"]])
                       ELSE @,
           !.pageNum = @ + 1,
           !.pc = "pages"]
    /\ UNCHANGED <<concurrentRequests, reqs, call>>

\* The end of the turn: both extractions are done, the page's content is
\* pushed.  The text is the page's own, whatever it says.
EndPage ==
    /\ job.pc = "images"
    /\ job.i = job.opCount
    /\ job' = [job EXCEPT
           !.results = Append(@, [pageNumber |-> job.pageNum,
                                 textContent |-> job.pageNum,
                                 images |-> job.images]),
           !.pageNum = @ + 1,
           !.pc = "pages"]
    /\ UNCHANGED <<concurrentRequests, reqs, call>>

\* The entries the convert handler appends: one per converted page.
ConvertEntries(convertedPages) ==
    [k \in 1..Len(convertedPages) |-> Entry(0, convertedPages[k].filename)]

\* Faulty variant: a page's images are appended before its text.
PageEntriesImagesFirst(page) ==
    [k \in 1..Len(page.images) |-> [dir |-> page.pageNumber, name |-> page.images[k].filename]]
    \o << [dir |-> 0, name |-> [kind |-> "text", page |-> page.pageNumber,
                                index |-> 0, ext |-> "txt"]] >>

\* Faulty variant: every page gets an entry for its images folder, images
\* or not.
PageEntriesAlwaysFolder(page) ==
    << [dir |-> 0, name |-> [kind |-> "text", page |-> page.pageNumber,
                             index |-> 0, ext |-> "txt"]],
       [dir |-> page.pageNumber, name |-> [kind |-> "folder", page |-> page.pageNumber,
                                           index |-> 0, ext |-> ""]] >>
    \o [k \in 1..Len(page.images) |-> [dir |-> page.pageNumber, name |-> page.images[k].filename]]

\* The entries the extract handler appends for one page: its text, then its
\* images under the page's folder.
PageEntries(page) ==
    <<Entry(0, TextFilename(page.pageNumber))>>
    \o [k \in 1..Len(page.images) |-> Entry(page.pageNumber, page.images[k].filename)]

RECURSIVE ExtractEntries(_)
ExtractEntries(extractedContent) ==
    IF extractedContent = <<>> THEN <<>>
    ELSE PageEntries(Head(extractedContent)) \o ExtractEntries(Tail(extractedContent))

\* The handler after the service returned, run in one piece: the download
\* headers are set, the archive is created and piped to the response, every
\* entry is appended and finalize is called; pdf-to-docx builds the document
\* and sends it.
Package ==
    /\ job.pc = "pages"
    /\ job.pageNum > job.numPages
    /\ job' = CASE job.route = "convert" ->
                     [job EXCEPT !.zipHeaders = TRUE,
                                 !.archive = ConvertEntries(job.results),
                                 !.pc = "drain"]
                [] job.route = "extract" ->
                     [job EXCEPT !.zipHeaders = TRUE,
                                 !.archive = ExtractEntries(job.results),
                                 !.pc = "drain"]
                [] OTHER ->
                     [job EXCEPT !.statusCode = 200, !.by = "handler",
                                 !.ended = TRUE, !.pc = "done"]
    /\ UNCHANGED <<concurrentRequests, reqs, call>>

\* The archive writes its next entry to the response; the first chunk
\* carries the head.
ArchiveWrite ==
    /\ job.pc = "drain"
    /\ Len(job.written) < Len(job.archive)
    /\ job' = [job EXCEPT !.written = Append(@, job.archive[Len(job.written) + 1]),
                          !.statusCode = 200, !.by = "handler"]
    /\ UNCHANGED <<concurrentRequests, reqs, call>>

\* The archive is finalized: the response ends.
ArchiveEnd ==
    /\ job.pc = "drain"
    /\ Len(job.written) = Len(job.archive)
    /\ job' = [job EXCEPT !.statusCode = 200, !.by = "handler",
                          !.ended = TRUE, !.pc = "done"]
    /\ UNCHANGED <<concurrentRequests, reqs, call>>

\* The archive emits 'error' while the response is being packaged.  Its
\* listener rethrows.  When the archive emits from inside a call the handler
\* made within its try block, the catch passes the error to next(error): the
\* error handler answers 500 if no head was sent, and cannot answer on a head
\* that was.  When the archive emits from a later turn of the event loop
\* (its queue or its stream pipeline), nothing catches the throw: it is an
\* uncaught exception, and the process handler logs it and exits.
ArchiveError ==
    /\ job.pc = "drain"
    /\ \/ job' = IF job.written = <<>>
                 THEN [job EXCEPT !.archiveError = "caught", !.pc = "failed"]
                 ELSE [job EXCEPT !.archiveError = "caught", !.by = "errorHandler",
                                  !.pc = "done"]
       \/ job' = [job EXCEPT !.archiveError = "uncaught", !.pc = "exited"]
    /\ UNCHANGED <<concurrentRequests, reqs, call>>

\* next(error) reaches errorHandler: 500 with the error's message
ErrorHandler ==
    /\ job.pc = "failed"
    /\ job' = JobJson(job, 500, "errorHandler")
    /\ UNCHANGED <<concurrentRequests, reqs, call>>

\* No service function has been called.
IdleCall == [fn |-> "none"]

Init ==
    /\ concurrentRequests = <<>>
    /\ reqs = [r \in Reqs |-> IdleReq]
    /\ job = IdleJob
    /\ call = IdleCall

Next ==
    \E r \in Reqs :
        \/ DosProtection(r)
        \/ Finish(r)
        \/ Close(r)
        \/ TimerFire(r)
        \/ HandlerRespond(r)
        \/ HandlerStream(r)
        \/ HandlerEnd(r)

\* The guardrail chain under concurrent requests.
Spec == Init /\ [][Next]_vars

RouteNext ==
    \/ UploadSingle
    \/ ValidatePdfUpload
    \/ Handler
    \/ LoadPdfDocument
    \/ ConvertPage
    \/ StartPage
    \/ ImageStep
    \/ EndPage
    \/ Package
    \/ ArchiveWrite
    \/ ArchiveEnd
    \/ ErrorHandler

\* One call of a PDF route.
RouteSpec == Init /\ [][RouteNext]_vars

\* One call of a PDF route during which the archive may fail.
ArchiveNext ==
    \/ RouteNext
    \/ ArchiveError

ArchiveSpec == Init /\ [][ArchiveNext]_vars

\* One call of a PDF route that is never held up by the server itself: the
\* event loop runs whatever step is ready (every await of the handler is on
\* a promise that, once settled, resumes it).
RouteFairSpec == RouteSpec /\ WF_vars(RouteNext)

(***************************************************************************)
(* The service functions called on their own (FnSpec).  call holds the      *)
(* function, its argument and, once it returned, its result.               *)
(***************************************************************************)
SeqsUpTo(S, n) == UNION { [1..k -> S] : k \in 0..n }

Abs(x) == IF x < 0 THEN 0 - x ELSE x

\* A call that has not run yet.
FnCall(fn, arg) == [fn |-> fn, arg |-> arg, done |-> FALSE, out |-> <<>>]

\* The call returns.
Return(out) == call' = [call EXCEPT !.done = TRUE, !.out = out]

\* ---- extractTextFromPage ----
\* textContent.items: a text fragment has a str and a baseline transform[5];
\* a marked-content item has no str.
MaxItems == 3
TextYs == {-1, 0, 5, 6}
TextItems ==
    { [str |-> FALSE, s |-> "", y |-> 0] }
    \cup { [str |-> TRUE, s |-> "a", y |-> y] : y \in TextYs }

\* The loop of extractTextFromPage from item k on; text is the sequence of
\* the pieces appended so far.
RECURSIVE ExtractTextLoop(_, _, _, _)
ExtractTextLoop(items, k, text, lastY) ==
    IF k > Len(items) THEN text
    ELSE LET item == items[k]
         IN  IF item.str
             THEN LET t1 == IF lastY # -1 /\ Abs(lastY - item.y) > 5
                            THEN Append(text, "\n") ELSE text
                  IN  ExtractTextLoop(items, k + 1, Append(t1, item.s), item.y)
             ELSE ExtractTextLoop(items, k + 1, text, lastY)

\* extractTextFromPage on the items getTextContent returned
ExtractTextFromPage(items) == ExtractTextLoop(items, 1, <<>>, -1)

ApplyExtractText ==
    /\ call.fn = "extractTextFromPage" /\ ~call.done
    /\ Return(ExtractTextFromPage(call.arg))
    /\ UNCHANGED <<concurrentRequests, reqs, job>>

\* ---- convertImageObjToBuffer ----
\* An image object of page.objs: width, height, kind and, when present, its
\* data bytes.
MaxImageBytes == 3
ImageByteValues == {0, 216, 255}
ImageKinds == {1, 2, 3}
ImageObjs ==
    { [width |-> 1, height |-> 1, kind |-> kind, hasData |-> TRUE, data |-> data] :
          kind \in ImageKinds, data \in SeqsUpTo(ImageByteValues, MaxImageBytes) }
    \cup { [width |-> 1, height |-> 1, kind |-> kind, hasData |-> FALSE, data |-> <<>>] :
               kind \in ImageKinds }

\* The pixel copy into createImageData(width, height): four bytes per turn
\* while i < srcData.length, a missing alpha byte becomes 255, any other
\* missing byte 0; bytes the loop never reaches stay 0.
CopyPixels(width, height, srcData) ==
    [k \in 1..(4 * width * height) |->
        LET i == 4 * ((k - 1) \div 4)
        IN  IF i >= Len(srcData) THEN 0
            ELSE IF k <= Len(srcData) THEN srcData[k]
            ELSE IF (k - 1) % 4 = 3 THEN 255 ELSE 0]

\* canvas.encode('png'): the PNG header, then the picture.
EncodePng(width, height, pixels) == PngSig \o <<width, height>> \o pixels

\* convertImageObjToBuffer
ConvertImageObjToBuffer(imageObj) ==
    IF /\ imageObj.hasData /\ imageObj.kind = 1
       /\ Len(imageObj.data) >= 2
       /\ imageObj.data[1] = 255 /\ imageObj.data[2] = 216
    THEN [buffer |-> imageObj.data, format |-> "jpg"]
    ELSE [buffer |-> EncodePng(imageObj.width, imageObj.height,
                               CopyPixels(imageObj.width, imageObj.height,
                                          IF imageObj.hasData THEN imageObj.data ELSE <<>>)),
          format |-> "png"]

ApplyConvertImageObj ==
    /\ call.fn = "convertImageObjToBuffer" /\ ~call.done
    /\ Return(ConvertImageObjToBuffer(call.arg))
    /\ UNCHANGED <<concurrentRequests, reqs, job>>

\* ---- ImageToPdfService ----
\* A buffer is its bytes and what an image decoder finds in them: the
\* format of the picture ("none": nothing decodable) and its pixel size.
MaxImages == 3
ImgBuffer(bytes, format, width, height) ==
    [bytes |-> bytes, format |-> format, width |-> width, height |-> height]
PngPicture(width, height) == ImgBuffer(PngSig \o <<width, height>>, "png", width, height)
JpegPicture(width, height) == ImgBuffer(JpegBytes \o <<width, height>>, "jpeg", width, height)
CorruptPng == ImgBuffer(PngSig \o <<0>>, "none", 0, 0)
EmptyBuffer == ImgBuffer(<<>>, "none", 0, 0)

NameJpg == <<"d", ".", "j", "p", "g">>

\* ImageData
ImageData(buffer, mimetype, originalname) ==
    [buffer |-> buffer, mimetype |-> mimetype, originalname |-> originalname]

GoodImages ==
    { ImageData(PngPicture(1, 2), "image/png", NamePng),
      ImageData(PngPicture(2, 1), "image/png", NameNoExt),
      ImageData(JpegPicture(2, 1), "image/jpeg", NameJpg) }

ImageDatas ==
    GoodImages
    \cup { ImageData(CorruptPng, "image/png", NamePng),
           ImageData(PngPicture(1, 2), "image/jpeg", NamePng),
           ImageData(PngPicture(1, 2), "image/gif", NamePng),
           ImageData(EmptyBuffer, "image/png", NamePng) }

\* An Error, by its message: the fixed texts in the order they appear in
\* it, and the image index, file name and type it quotes.
Err(texts, n, name, mimetype) ==
    [texts |-> texts, index |-> n, name |-> name, mimetype |-> mimetype]
NoError == Err(<<>>, 0, <<>>, "")
ErrEmpty == Err(<<"At least one image is required">>, 0, <<>>, "")
ErrNoData(n) == Err(<<"Image has no data">>, n, <<>>, "")
ErrUnsupported(n, image) ==
    Err(<<"Image has unsupported format">>, n, image.originalname, image.mimetype)
ErrUnsupportedFormat(image) == Err(<<"Unsupported image format">>, 0, <<>>, image.mimetype)
ErrInvalidData == Err(<<"Invalid image data">>, 0, <<>>, "")
ErrEmbed(cause) == [cause EXCEPT !.texts = <<"Failed to embed image">> \o @]
ErrProcess(n, image, cause) ==
    [cause EXCEPT !.texts = <<"Failed to process image">> \o @,
                  !.index = n, !.name = image.originalname]

\* isValidImageFormat
IsValidImageFormat(mimetype) == mimetype = "image/png" \/ mimetype = "image/jpeg"

\* validateImages from image n on: the first image without data or with an
\* unsupported type throws.
RECURSIVE ValidateImagesLoop(_, _)
ValidateImagesLoop(images, n) ==
    IF n > Len(images) THEN [ok |-> TRUE, error |-> NoError]
    ELSE IF Len(images[n].buffer.bytes) = 0
    THEN [ok |-> FALSE, error |-> ErrNoData(n)]
    ELSE IF ~IsValidImageFormat(images[n].mimetype)
    THEN [ok |-> FALSE, error |-> ErrUnsupported(n, images[n])]
    ELSE ValidateImagesLoop(images, n + 1)

\* validateImages
ValidateImages(images) ==
    IF Len(images) = 0 THEN [ok |-> FALSE, error |-> ErrEmpty]
    ELSE ValidateImagesLoop(images, 1)

\* Faulty variant: every page is created with a fixed size.
AddImageToPdfFixedPage(pages, imageData) ==
    LET buffer == imageData.buffer
        thrown ==
            IF imageData.mimetype = "image/png"
            THEN (IF buffer.format = "png" THEN NoError ELSE ErrInvalidData)
            ELSE IF imageData.mimetype = "image/jpeg"
            THEN (IF buffer.format = "jpeg" THEN NoError ELSE ErrInvalidData)
            ELSE ErrUnsupportedFormat(imageData)
        page == [width |-> 595, height |-> 842,
                 image |-> [buffer |-> buffer, x |-> 0, y |-> 0,
                            width |-> buffer.width, height |-> buffer.height]]
    IN  IF thrown # NoError THEN [ok |-> FALSE, pages |-> pages, error |-> ErrEmbed(thrown)]
        ELSE [ok |-> TRUE, pages |-> Append(pages, page), error |-> NoError]

\* addImageToPdf: embedPng / embedJpg by the declared type, or an
\* unsupported-format error for any other; whatever is thrown there is
\* rethrown as a failure to embed.  Then a page of the picture's size with
\* the picture drawn over all of it.
AddImageToPdf(pages, imageData) ==
    LET buffer == imageData.buffer
        thrown ==
            IF imageData.mimetype = "image/png"
            THEN (IF buffer.format = "png" THEN NoError ELSE ErrInvalidData)
            ELSE IF imageData.mimetype = "image/jpeg"
            THEN (IF buffer.format = "jpeg" THEN NoError ELSE ErrInvalidData)
            ELSE ErrUnsupportedFormat(imageData)
        page == [width |-> buffer.width, height |-> buffer.height,
                 image |-> [buffer |-> buffer, x |-> 0, y |-> 0,
                            width |-> buffer.width, height |-> buffer.height]]
    IN  IF thrown # NoError THEN [ok |-> FALSE, pages |-> pages, error |-> ErrEmbed(thrown)]
        ELSE [ok |-> TRUE, pages |-> Append(pages, page), error |-> NoError]

\* pdfDoc.save() and Buffer.from: the document's bytes
SavePdf(pages) == [sig |-> PdfSig, pages |-> pages]
NoBuffer == [sig |-> <<>>, pages |-> <<>>]

\* Faulty variant: an image that fails is left out and the loop goes on.
RECURSIVE ConvertImagesLoopSkipping(_, _, _)
ConvertImagesLoopSkipping(images, n, pages) ==
    IF n > Len(images)
    THEN [ok |-> TRUE, buffer |-> SavePdf(pages), error |-> NoError, attempted |-> Len(images)]
    ELSE ConvertImagesLoopSkipping(images, n + 1, AddImageToPdf(pages, images[n]).pages)

\* The loop of convertImagesToPdf from image n on (n counts from 1, as the
\* messages do).  attempted is the number of images the loop reached.
RECURSIVE ConvertImagesLoop(_, _, _)
ConvertImagesLoop(images, n, pages) ==
    IF n > Len(images)
    THEN [ok |-> TRUE, buffer |-> SavePdf(pages), error |-> NoError, attempted |-> Len(images)]
    ELSE LET added == AddImageToPdf(pages, images[n])
         IN  IF ~added.ok
             THEN [ok |-> FALSE, buffer |-> NoBuffer,
                   error |-> ErrProcess(n, images[n], added.error), attempted |-> n]
             ELSE ConvertImagesLoop(images, n + 1, added.pages)

\* convertImagesToPdf
ConvertImagesToPdf(images) ==
    IF Len(images) = 0
    THEN [ok |-> FALSE, buffer |-> NoBuffer, error |-> ErrEmpty, attempted |-> 0]
    ELSE ConvertImagesLoop(images, 1, <<>>)

ApplyValidateImages ==
    /\ call.fn = "validateImages" /\ ~call.done
    /\ Return(ValidateImages(call.arg))
    /\ UNCHANGED <<concurrentRequests, reqs, job>>

ApplyConvertImagesToPdf ==
    /\ call.fn = "convertImagesToPdf" /\ ~call.done
    /\ Return(ConvertImagesToPdf(call.arg))
    /\ UNCHANGED <<concurrentRequests, reqs, job>>

\* The calls FnSpec starts from.
\* PdfToDocxService.buildDocxContent.  A text is a sequence of characters,
\* an image buffer is "ok" or "bad" (createImageParagraph throws on it), a
\* paragraph is recorded with its kind and the index of the page it came
\* from.
MaxDocPages == 3
Whitespace == {" ", "\n"}

DocParagraph(kind, page, text) == [kind |-> kind, page |-> page, text |-> text]

\* String.prototype.trim
RECURSIVE TrimStart(_)
TrimStart(t) ==
    IF t # <<>> /\ Head(t) \in Whitespace THEN TrimStart(Tail(t)) ELSE t

RECURSIVE TrimEnd(_)
TrimEnd(t) ==
    IF t # <<>> /\ t[Len(t)] \in Whitespace
    THEN TrimEnd(SubSeq(t, 1, Len(t) - 1)) ELSE t

Trim(t) == TrimEnd(TrimStart(t))

\* textContent.split('\n'): lines is the list so far, line the current line
RECURSIVE SplitLines(_, _, _)
SplitLines(t, lines, line) ==
    IF t = <<>> THEN Append(lines, line)
    ELSE IF Head(t) = "\n" THEN SplitLines(Tail(t), Append(lines, line), <<>>)
    ELSE SplitLines(Tail(t), lines, Append(line, Head(t)))

\* convertTextToParagraphs
ConvertTextToParagraphs(textContent, page) ==
    LET lines == SplitLines(textContent, <<>>, <<>>)
    IN  [k \in 1..Len(lines) |->
            IF Len(Trim(lines[k])) = 0 THEN DocParagraph("empty", page, <<>>)
            ELSE DocParagraph("text", page, Trim(lines[k]))]

\* the image loop of buildDocxContent: an image whose paragraph cannot be
\* created is logged and left out
RECURSIVE ImageParagraphs(_, _)
ImageParagraphs(images, page) ==
    IF images = <<>> THEN <<>>
    ELSE (IF Head(images) = "ok" THEN <<DocParagraph("image", page, <<>>)>> ELSE <<>>)
         \o ImageParagraphs(Tail(images), page)

\* Faulty variant: a page break after every page, the last included.
RECURSIVE BuildDocxLoopBreakAfterLast(_, _, _, _, _)
BuildDocxLoopBreakAfterLast(extractedContent, includeImages, preservePageBreaks, i, paragraphs) ==
    IF i > Len(extractedContent) THEN paragraphs
    ELSE LET page == extractedContent[i]
             label == IF Len(extractedContent) > 1
                      THEN <<DocParagraph("label", i, <<>>)>> ELSE <<>>
             text == IF Len(Trim(page.textContent)) > 0
                     THEN ConvertTextToParagraphs(page.textContent, i) ELSE <<>>
             images == IF includeImages /\ Len(page.images) > 0
                       THEN ImageParagraphs(page.images, i) ELSE <<>>
             break == IF preservePageBreaks
                      THEN <<DocParagraph("break", i, <<>>)>> ELSE <<>>
         IN  BuildDocxLoopBreakAfterLast(extractedContent, includeImages, preservePageBreaks,
                 i + 1, paragraphs \o label \o text \o images \o break)

\* the page loop of buildDocxContent, from page i on
RECURSIVE BuildDocxLoop(_, _, _, _, _)
BuildDocxLoop(extractedContent, includeImages, preservePageBreaks, i, paragraphs) ==
    IF i > Len(extractedContent) THEN paragraphs
    ELSE LET page == extractedContent[i]
             label == IF Len(extractedContent) > 1
                      THEN <<DocParagraph("label", i, <<>>)>> ELSE <<>>
             text == IF Len(Trim(page.textContent)) > 0
                     THEN ConvertTextToParagraphs(page.textContent, i) ELSE <<>>
             images == IF includeImages /\ Len(page.images) > 0
                       THEN ImageParagraphs(page.images, i) ELSE <<>>
             break == IF preservePageBreaks /\ i < Len(extractedContent)
                      THEN <<DocParagraph("break", i, <<>>)>> ELSE <<>>
         IN  BuildDocxLoop(extractedContent, includeImages, preservePageBreaks,
                 i + 1, paragraphs \o label \o text \o images \o break)

BuildDocxContent(extractedContent, includeImages, preservePageBreaks) ==
    BuildDocxLoop(extractedContent, includeImages, preservePageBreaks, 1, <<>>)

\* Extracted pages: text of two lines, blank text with an image, no text
\* with a failing and a good image, one line and no image.
PageContents ==
    { [textContent |-> <<"a", "\n", "b">>, images |-> <<>>],
      [textContent |-> <<" ">>, images |-> <<"ok">>],
      [textContent |-> <<>>, images |-> <<"bad", "ok">>],
      [textContent |-> <<"a", " ">>, images |-> <<>>] }

ApplyBuildDocxContent ==
    /\ call.fn = "buildDocxContent" /\ ~call.done
    /\ Return(BuildDocxContent(call.arg.extractedContent, call.arg.includeImages,
                               call.arg.preservePageBreaks))
    /\ UNCHANGED <<concurrentRequests, reqs, job>>

\* validatePdfComplexity called on its own.  A file is its bytes and the
\* sequence of the tokens in it; the scan reads the first ScanWindow tokens
\* (the first megabyte of the buffer).
MaxTokens == 3
ScanWindow == 2
ScanTokens == {PageTok, PagesTok, CountTok(0), CountTok(2), CountTok(3)}
ScanBuffers == {<<>>, SubSeq(PdfBytes, 1, 4), SubSeq(PdfBytes, 1, 5), PdfBytes}
ScanLimits == {1, 2, 3}

\* pdfBuffer.toString('utf8', 0, Math.min(pdfBuffer.length, 1024 * 1024))
ScannedContent(tokens) ==
    SubSeq(tokens, 1, IF Len(tokens) < ScanWindow THEN Len(tokens) ELSE ScanWindow)

ApplyValidatePdfComplexity ==
    /\ call.fn = "validatePdfComplexity" /\ ~call.done
    /\ call' = [call EXCEPT !.done = TRUE,
                   !.out = ValidatePdfComplexity(call.arg.buffer,
                               ScannedContent(call.arg.tokens), call.arg.maxPages)]
    /\ UNCHANGED <<concurrentRequests, reqs, job>>

\* validateFile called on its own.
NameTrailingDot == <<"d", ".">>
FileBuffers ==
    {<<>>, ShortPdfBytes, PdfBytes, NotPdfBytes, PngSig \o <<1, 1>>, JpegBytes}
FileNames == {NamePdf, NameUpperPdf, NameNoExt, NameTrailingDot, NamePng, NameJpg}
FileMimes == {"application/pdf", "Application/PDF", "image/png", "image/jpeg"}
AllowedTypeLists == { {"pdf"}, {"png", "jpeg"} }

ApplyValidateFile ==
    /\ call.fn = "validateFile" /\ ~call.done
    /\ call' = [call EXCEPT !.done = TRUE,
                   !.out = ValidateFile(call.arg.buffer, call.arg.filename,
                                        call.arg.mimeType, call.arg.allowedTypes)]
    /\ UNCHANGED <<concurrentRequests, reqs, job>>

FnCalls ==
    { FnCall("extractTextFromPage", items) : items \in SeqsUpTo(TextItems, MaxItems) }
    \cup { FnCall("convertImageObjToBuffer", o) : o \in ImageObjs }
    \cup { FnCall(fn, images) : fn \in {"validateImages", "convertImagesToPdf"},
                                images \in SeqsUpTo(ImageDatas, MaxImages) }
        \cup { FnCall("buildDocxContent",
                      [extractedContent |-> pages, includeImages |-> inc,
                       preservePageBreaks |-> brk]) :
                   pages \in SeqsUpTo(PageContents, MaxDocPages),
                   inc \in BOOLEAN, brk \in BOOLEAN }
    \cup { FnCall("validatePdfComplexity",
                   [buffer |-> b, tokens |-> t, maxPages |-> m]) :
               b \in ScanBuffers, t \in SeqsUpTo(ScanTokens, MaxTokens), m \in ScanLimits }
    \cup { FnCall("validateFile",
                   [buffer |-> b, filename |-> f, mimeType |-> m, allowedTypes |-> a]) :
               b \in FileBuffers, f \in FileNames, m \in FileMimes,
               a \in AllowedTypeLists }

FnInit ==
    /\ concurrentRequests = <<>>
    /\ reqs = [r \in Reqs |-> IdleReq]
    /\ job = IdleJob
    /\ call \in FnCalls

FnNext ==
    \/ ApplyExtractText
    \/ ApplyConvertImageObj
    \/ ApplyValidateImages
    \/ ApplyConvertImagesToPdf
    \/ ApplyBuildDocxContent
    \/ ApplyValidatePdfComplexity
    \/ ApplyValidateFile

\* One call of a service function on an argument of its domain.
FnSpec == FnInit /\ [][FnNext]_vars

(***************************************************************************)
(* One call of POST /images-to-pdf (ImagesSpec).                           *)
(***************************************************************************)
\* limits.files of imageUpload, and the maxCount of imageUpload.array
MaxImagesPerRequest == 20
MaxFiles == 21

\* validateImage
ValidateImage(buffer, filename, mimeType) ==
    ValidateFile(buffer, filename, mimeType, {"png", "jpeg"})

\* The file parts of a request: n parts, all the same valid image except
\* possibly one.
FileLists ==
    { [k \in 1..n |-> base] : n \in 0..MaxFiles, base \in GoodImages }
    \cup { [k \in 1..n |-> IF k = p THEN other ELSE base] :
               n \in 1..MaxFiles, p \in 1..MaxFiles,
               base \in GoodImages, other \in ImageDatas \ GoodImages }

\* res.status(code).json(body) of the call
ImagesJson(c, code, stage) ==
    [c EXCEPT !.statusCode = code, !.by = stage, !.pc = "done"]

\* Faulty variant: the upload accepts any number of files.
ImageUploadArrayUnlimited ==
    /\ call.fn = "none"
    /\ \E files \in FileLists :
         LET c == [fn |-> "images-to-pdf", pc |-> "validate", files |-> files,
                   reqFiles |-> <<>>, composed |-> FALSE, statusCode |-> 0, by |-> "",
                   body |-> NoBuffer, error |-> NoError]
         IN  call' = IF \E k \in 1..Len(files) : ~IsValidImageFormat(files[k].mimetype)
                     THEN ImagesJson(c, 400, "upload")
                     ELSE [c EXCEPT !.reqFiles = files]
    /\ UNCHANGED <<concurrentRequests, reqs, job>>

\* imageUpload.array('images', 20) with imageFileFilter: more than 20 file
\* parts, or a part whose declared type is neither image/png nor
\* image/jpeg, is an upload error, which the router's upload-error
\* middleware answers with 400; else the parts become req.files.
ImageUploadArray ==
    /\ call.fn = "none"
    /\ \E files \in FileLists :
         LET c == [fn |-> "images-to-pdf", pc |-> "validate", files |-> files,
                   reqFiles |-> <<>>, composed |-> FALSE, statusCode |-> 0, by |-> "",
                   body |-> NoBuffer, error |-> NoError]
         IN  call' = IF Len(files) > MaxImagesPerRequest
                     THEN ImagesJson(c, 400, "upload")
                     ELSE IF \E k \in 1..Len(files) : ~IsValidImageFormat(files[k].mimetype)
                     THEN ImagesJson(c, 400, "upload")
                     ELSE [c EXCEPT !.reqFiles = files]
    /\ UNCHANGED <<concurrentRequests, reqs, job>>

\* validateImageUploads
ValidateImageUploads ==
    /\ call.fn = "images-to-pdf" /\ call.pc = "validate"
    /\ LET invalid == { k \in 1..Len(call.reqFiles) :
                          ~ValidateImage(call.reqFiles[k].buffer.bytes,
                                         call.reqFiles[k].originalname,
                                         call.reqFiles[k].mimetype).isValid }
       IN  call' = IF Len(call.reqFiles) = 0 THEN [call EXCEPT !.pc = "handler"]
                   ELSE IF invalid # {} THEN ImagesJson(call, 400, "validateImageUploads")
                   ELSE [call EXCEPT !.pc = "handler"]
    /\ UNCHANGED <<concurrentRequests, reqs, job>>

\* The route handler: validateImages, convertImagesToPdf, res.send; what
\* either throws goes to next(error).
ImagesHandler ==
    /\ call.fn = "images-to-pdf" /\ call.pc = "handler"
    /\ LET images == call.reqFiles
           checked == ValidateImages(images)
           made == ConvertImagesToPdf(images)
       IN  call' = IF Len(call.reqFiles) = 0 THEN ImagesJson(call, 400, "handler")
                   ELSE IF ~checked.ok
                   THEN [call EXCEPT !.error = checked.error, !.pc = "failed"]
                   ELSE IF ~made.ok
                   THEN [call EXCEPT !.composed = TRUE, !.error = made.error, !.pc = "failed"]
                   ELSE [ImagesJson(call, 200, "handler") EXCEPT
                            !.composed = TRUE, !.body = made.buffer]
    /\ UNCHANGED <<concurrentRequests, reqs, job>>

\* next(error) reaches errorHandler: 500 with the error's message
ImagesErrorHandler ==
    /\ call.fn = "images-to-pdf" /\ call.pc = "failed"
    /\ call' = ImagesJson(call, 500, "errorHandler")
    /\ UNCHANGED <<concurrentRequests, reqs, job>>

ImagesNext ==
    \/ ImageUploadArray
    \/ ValidateImageUploads
    \/ ImagesHandler
    \/ ImagesErrorHandler

ImagesSpec == Init /\ [][ImagesNext]_vars

(***************************************************************************)
(* Properties of the guardrail chain (Spec).                               *)
(***************************************************************************)
Min(a, b) == IF a <= b THEN a ELSE b
Max(a, b) == IF a >= b THEN a ELSE b

\* The requests that reached the limiter under client identifier k, those
\* it admitted and those it refused.
Through(k) == { r \in Reqs : reqs[r].clientIp = k }
Admitted(k) == { r \in Through(k) : reqs[r].onCleanup }
Refused(k) == { r \in Through(k) : ~reqs[r].onCleanup /\ reqs[r].pc = "rejected"
                                     /\ reqs[r].statusCode = 429 }
Completed(r) == reqs[r].finished \/ reqs[r].closed

\* C1: the completion of one request never lowers its client's count by more
\* than one, and a request whose response has closed has lowered it by
\* exactly one.
C1_ReleasedExactlyOnce ==
    \A r \in Reqs :
        reqs[r].onCleanup =>
            /\ reqs[r].lowered <= 1
            /\ reqs[r].closed => reqs[r].lowered = 1

\* C2: when N requests of one client identifier have arrived at the limiter
\* and none of the admitted ones has completed, min(N, C) of them were
\* admitted and max(0, N - C) were refused with 429; and once every admitted
\* request of the identifier has completed the identifier has no entry.
C2_RejectsBeyondCap ==
    \A k \in Addrs :
        LET N == Cardinality(Through(k))
        IN  /\ (\A r \in Admitted(k) : ~Completed(r)) =>
                  /\ Cardinality(Admitted(k)) = Min(N, MaxConcurrent)
                  /\ Cardinality(Refused(k)) = Max(0, N - MaxConcurrent)
                  /\ MapGet(concurrentRequests, k) = Min(N, MaxConcurrent)
            /\ (\A r \in Admitted(k) : Completed(r)) =>
                  k \notin DOMAIN concurrentRequests

\* A client over its cap: one request in flight, the next refused with 429.
C2_Witness ==
    \E k \in Addrs :
        /\ Cardinality(Through(k)) > MaxConcurrent
        /\ Refused(k) # {}
        /\ \A r \in Admitted(k) : ~Completed(r)
        /\ MapGet(concurrentRequests, k) = MaxConcurrent

\* C4 as stated: a deadline that expires while the handler has not ended the
\* response makes the response a 503, at whatever stage the handler is.
C4_TimeoutAlways503 ==
    [][\A r \in Reqs :
          (reqs[r].timer = "armed" /\ reqs'[r].timer = "fired" /\ ~reqs[r].ended)
              => reqs'[r].statusCode = 503]_vars

\* C4, amended: a deadline that expires before any header was sent ends the
\* response with 503; one that expires after the head was sent writes
\* nothing, and the response goes on with the status it had.
C4_TimeoutBeforeHeaders ==
    [][\A r \in Reqs :
          (reqs[r].timer = "armed" /\ reqs'[r].timer = "fired") =>
              IF ~reqs[r].headersSent
              THEN reqs'[r].statusCode = 503 /\ reqs'[r].headersSent /\ reqs'[r].ended
              ELSE /\ reqs'[r].statusCode = reqs[r].statusCode
                   /\ reqs'[r].ended = reqs[r].ended
                   /\ reqs'[r].pc = reqs[r].pc]_vars

\* The deadline fired while the handler was still working and before it had
\* sent anything: the response is a 503.
C4_Witness ==
    \E r \in Reqs :
        /\ reqs[r].timer = "fired" /\ reqs[r].pc = "handler"
        /\ reqs[r].statusCode = 503 /\ reqs[r].ended

\* C6: a request whose declared Content-Length exceeds the ceiling is
\* answered 413 by the size gate and goes no further (no slot, no timer, no
\* handler); one at or below the ceiling is never answered 413 and reaches
\* the limiter.
C6_PayloadCeiling ==
    \A r \in Reqs :
        reqs[r].pc # "idle" =>
            IF ParseInt(reqs[r].contentLength) > MaxBodySize
            THEN /\ reqs[r].pc = "rejected" /\ reqs[r].statusCode = 413
                 /\ reqs[r].clientIp = "" /\ ~reqs[r].onCleanup
                 /\ reqs[r].timer = "none"
            ELSE reqs[r].statusCode # 413 /\ reqs[r].clientIp # ""

\* One request one byte over the ceiling was refused, one exactly at the
\* ceiling went through to its handler.
C6_Witness ==
    \E r, p \in Reqs :
        /\ ParseInt(reqs[r].contentLength) = MaxBodySize + 1
        /\ reqs[r].statusCode = 413
        /\ ParseInt(reqs[p].contentLength) = MaxBodySize
        /\ reqs[p].pc = "handler"

\* C22: the map holds only counts from 1 to the cap: no count is negative or
\* above the cap, and a client whose count would be 0 has no entry.
C22_CountsWithinCap ==
    \A k \in DOMAIN concurrentRequests :
        /\ concurrentRequests[k] >= 1
        /\ concurrentRequests[k] <= MaxConcurrent

\* One client is at the cap while another, whose admitted request has
\* completed, has no entry.
C22_Witness ==
    \E r, p \in Reqs :
        /\ reqs[r].onCleanup /\ ~Completed(r)
        /\ MapGet(concurrentRequests, reqs[r].clientIp) = MaxConcurrent
        /\ reqs[p].onCleanup /\ reqs[p].finished /\ reqs[p].closed
        /\ reqs[p].clientIp \notin DOMAIN concurrentRequests

\* The admitted requests of client identifier k whose response has neither
\* finished nor closed.
InFlight(k) == { r \in Admitted(k) : ~Completed(r) }

\* C23: the number of admitted requests of one client whose response has not
\* finished or closed never exceeds the cap and always equals the client's
\* stored count.
C23_CountEqualsInFlight ==
    \A k \in Addrs :
        /\ Cardinality(InFlight(k)) <= MaxConcurrent
        /\ Cardinality(InFlight(k)) = MapGet(concurrentRequests, k)

\* C24: while the handler of an admitted request is still working after the
\* deadline fired and the 503 was sent, the request's slot has not been
\* released.
C24_SlotHeldWhileWorking ==
    \A r \in Reqs :
        (/\ reqs[r].onCleanup /\ reqs[r].pc = "handler"
         /\ reqs[r].timer = "fired" /\ reqs[r].statusCode = 503
         /\ ~reqs[r].closed)
            => reqs[r].lowered = 0

\* C25: a request receives at most one response: once a response head was
\* sent (the 503 of the deadline, or the handler's own) no later step of the
\* deadline or of the handler changes the status or sends a head again, and
\* once the response has finished or closed the timer is not armed and never
\* fires.
C25_AtMostOneResponse ==
    [][\A r \in Reqs :
          /\ reqs[r].headersSent =>
                /\ reqs'[r].headersSent
                /\ reqs'[r].statusCode = reqs[r].statusCode
          /\ reqs[r].ended => reqs'[r].ended
          /\ (reqs[r].finished \/ reqs[r].closed) =>
                /\ reqs[r].timer # "armed"
                /\ reqs'[r].timer = reqs[r].timer]_vars

\* The deadline fired first and answered 503; the handler completed later
\* and the response is still the 503.
C25_Witness ==
    \E r \in Reqs :
        /\ reqs[r].timer = "fired" /\ reqs[r].pc = "done"
        /\ reqs[r].statusCode = 503 /\ reqs[r].ended

\* C26: a request refused by a gate leaves the map as it was, when it is
\* refused and when its response completes: one refused for its size (413)
\* has not reached the limiter, and one refused at the cap (429) has neither
\* raised the count nor registered a cleanup.
C26_RefusalLeavesMap ==
    [][\A r \in Reqs :
          /\ (reqs[r].pc = "idle" /\ reqs'[r].pc = "rejected") =>
                /\ concurrentRequests' = concurrentRequests
                /\ ~reqs'[r].onCleanup
                /\ reqs'[r].statusCode \in {413, 429}
                /\ reqs'[r].statusCode = 413 => reqs'[r].clientIp = ""
          /\ (reqs[r].pc = "rejected" /\ reqs'[r] # reqs[r]) =>
                /\ concurrentRequests' = concurrentRequests
                /\ reqs'[r].pc = "rejected"]_vars

\* A request refused with 429 has completed while the client it was counted
\* under still holds its full count for a request in flight.
C26_Witness ==
    \E r, p \in Reqs :
        /\ reqs[r].pc = "rejected" /\ reqs[r].statusCode = 429
        /\ reqs[r].finished /\ reqs[r].closed
        /\ MapGet(concurrentRequests, reqs[r].clientIp) = MaxConcurrent
        /\ reqs[p].onCleanup /\ ~Completed(p)

\* C27: a step of a request counted under client A (its admission, refusal
\* or completion) leaves the count of every other client B as it was, and a
\* request is refused with 429 only when its own client is at the cap.
C27_ClientsIndependent ==
    [][\A r \in Reqs :
          reqs'[r] # reqs[r] =>
              /\ \A B \in Addrs \ {reqs'[r].clientIp} :
                    MapGet(concurrentRequests', B) = MapGet(concurrentRequests, B)
              /\ (reqs[r].pc = "idle" /\ reqs'[r].statusCode = 429) =>
                    MapGet(concurrentRequests, reqs'[r].clientIp) >= MaxConcurrent]_vars

\* Client A is at its cap with a request in flight, and a request of
\* client B was admitted after it and has completed.
C27_Witness ==
    \E r, p \in Reqs :
        /\ r < p
        /\ reqs[r].onCleanup /\ ~Completed(r)
        /\ MapGet(concurrentRequests, reqs[r].clientIp) = MaxConcurrent
        /\ reqs[p].onCleanup /\ reqs[p].clientIp # reqs[r].clientIp
        /\ reqs[p].finished

\* C28: the identifier a request is counted under is its connection address,
\* whatever its X-Forwarded-For header says: two requests from one address
\* are counted under one key, and the admitted unfinished requests of one
\* address never exceed the cap.
C28_KeyIsConnectionAddress ==
    /\ \A r, p \in Reqs :
          (reqs[r].clientIp # "" /\ reqs[p].clientIp # "" /\ reqs[r].ip = reqs[p].ip)
              => reqs[r].clientIp = reqs[p].clientIp
    /\ \A a \in Addrs :
          Cardinality({ r \in Reqs : reqs[r].ip = a /\ reqs[r].onCleanup
                                       /\ ~Completed(r) }) <= MaxConcurrent

(***************************************************************************)
(* Properties of one route call (RouteSpec).                               *)
(***************************************************************************)
HasPdfSignature(buffer) ==
    Len(buffer) >= Len(PdfSig) /\ SubSeq(buffer, 1, Len(PdfSig)) = PdfSig

IsPrefix(s, t) == Len(s) <= Len(t) /\ \A k \in 1..Len(s) : s[k] = t[k]

\* C3: the document is handed to the PDF library only when the page-count
\* scan of its buffer accepts it.
C3_ScanBeforeLoad ==
    job.loadCalled =>
        ValidatePdfComplexity(job.file.buffer, job.file.content, MaxPdfPages).valid

\* C5: an upload whose content does not begin with the PDF signature is
\* invalid whatever name and type it declares; the call is answered 400
\* before the handler, and the document is never loaded.
C5_SignatureChecked ==
    /\ job.pc = "upload" =>
          \A f \in Uploads :
              (f.present /\ ~HasPdfSignature(f.buffer)) =>
                  ~ValidatePdf(f.buffer, f.originalname, f.mimetype).isValid
    /\ (job.file.present /\ ~HasPdfSignature(job.file.buffer)) =>
          /\ job.pc \in {"validate", "done"}
          /\ ~job.loadCalled /\ ~job.zipHeaders
          /\ job.pc = "done" => (job.statusCode = 400 /\ job.by = "validatePdfUpload")

\* An upload declared application/pdf and named .pdf whose bytes are not a
\* PDF was answered 400 by the upload validation.
C5_Witness ==
    /\ job.pc = "done" /\ job.by = "validatePdfUpload" /\ job.statusCode = 400
    /\ job.file.present /\ ~HasPdfSignature(job.file.buffer)
    /\ job.file.mimetype = "application/pdf" /\ job.file.originalname = NamePdf

\* C7: the archive's entries are in ascending page order.  Convert: entry k
\* is page k's image.  Extract: the text entries are those of pages
\* 1..numPages in order, and every image entry lies in the folder of the
\* page whose text entry is the nearest before it.  What the response has
\* received is a prefix of the archive.
C7_PageOrder ==
    job.zipHeaders =>
        /\ IsPrefix(job.written, job.archive)
        /\ job.route = "convert" =>
              /\ Len(job.archive) = job.numPages
              /\ \A k \in 1..Len(job.archive) :
                    job.archive[k] = Entry(0, PageFilename(k, job.format))
        /\ job.route = "extract" =>
              LET texts == { x \in 1..Len(job.archive) : job.archive[x].dir = 0 }
                  TextsUpTo(x) == { t \in texts : t <= x }
              IN  /\ Cardinality(texts) = job.numPages
                  /\ \A x \in 1..Len(job.archive) :
                        LET page == Cardinality(TextsUpTo(x))
                        IN  IF x \in texts
                            THEN job.archive[x].name = TextFilename(page)
                            ELSE /\ page >= 1
                                 /\ job.archive[x].dir = page
                                 /\ job.archive[x].name.kind = "image"
                                 /\ job.archive[x].name.page = page

\* An extract call of two pages, the first with an image, delivered whole.
C7_Witness ==
    /\ job.route = "extract" /\ job.pc = "done" /\ job.zipHeaders
    /\ job.numPages >= 2 /\ Len(job.results) >= 2
    /\ job.written = job.archive
    /\ Len(job.results[1].images) >= 1

\* C8: when loading the document or processing a page fails, no archive
\* header was set and no entry appended or written, and until the error
\* handler answers no status was written; the error handler answers 500.
C8_NoPartialArchive ==
    job.failure # "none" =>
        /\ ~job.zipHeaders /\ job.archive = <<>> /\ job.written = <<>>
        /\ job.pc \in {"failed", "done"}
        /\ job.pc = "failed" => (job.statusCode = 0 /\ ~job.ended)
        /\ job.pc = "done" => (job.statusCode = 500 /\ job.by = "errorHandler")

\* The second page of a document failed after the first was processed.
C8_Witness ==
    /\ job.failure = "page" /\ job.pc = "failed"
    /\ job.pageNum = 2 /\ Len(job.results) = 1

\* C9 as stated: for a document of several pages the first entry is written
\* to the response before the last page has been processed.
C9_FirstEntryBeforeLastPage ==
    [][(job.written = <<>> /\ job'.written # <<>> /\ job.numPages >= 2)
          => Len(job.results) < job.numPages]_vars

\* C9, amended: the archive is opened only after every page has been
\* processed and its result kept; its entries then reach the response one
\* after another.
C9_ArchiveAfterAllPages ==
    /\ job.zipHeaders =>
          /\ Len(job.results) = job.numPages
          /\ job.pageNum = job.numPages + 1
          /\ Len(job.written) <= Len(job.archive)
    /\ job.pc \in {"load", "pages", "images", "await"} =>
          (~job.zipHeaders /\ job.archive = <<>> /\ job.written = <<>>)

\* An archive of several entries of which the response has received some.
C9_Witness ==
    /\ job.pc = "drain"
    /\ 0 < Len(job.written) /\ Len(job.written) < Len(job.archive)

C11_NoFolderWithoutImages ==
    /\ \A K \in 1..Len(job.results) :
          (job.route # "convert" /\ job.painted[K] = 0) => job.results[K].images = <<>>
    /\ (job.route = "extract" /\ job.zipHeaders) =>
          \A K \in 1..Len(job.results) :
              /\ \E x \in 1..Len(job.archive) : job.archive[x] = Entry(0, TextFilename(K))
              /\ (\E x \in 1..Len(job.archive) : job.archive[x].dir = K)
                    <=> (job.results[K].images # <<>>)

\* An extract archive of a first page without paint-image instructions and a
\* second page with an image: a text entry for each, a folder for the second
\* only.
C11_Witness ==
    /\ job.route = "extract" /\ job.pc = "done" /\ job.zipHeaders
    /\ Len(job.results) >= 2
    /\ job.painted[1] = 0 /\ job.results[2].images # <<>>
    /\ \E x \in 1..Len(job.written) : job.written[x] = Entry(0, TextFilename(1))
    /\ ~\E x \in 1..Len(job.written) : job.written[x].dir = 1

\* The image lists of the pages walked so far: those of the extracted pages
\* and the one being built.
ImageLists ==
    { [page |-> K, images |-> job.results[K].images] : K \in 1..Len(job.results) }
    \cup (IF job.pc \in {"images", "await"}
          THEN { [page |-> job.pageNum, images |-> job.images] } ELSE {})

\* C21: within one page the k-th extracted image is named
\* page-N-image-k.fmt: the indices run 1, 2, 3, ... in list order and no two
\* images of a page share a filename, also when instructions were skipped.
C21_ImagesNumberedInOrder ==
    job.route \in {"extract", "pdf-to-docx"} =>
        /\ \A l \in ImageLists :
              /\ \A k \in 1..Len(l.images) :
                    l.images[k].filename = ImageFilename(l.page, k, l.images[k].format)
              /\ \A k, m \in 1..Len(l.images) :
                    k # m => l.images[k].filename # l.images[m].filename
        /\ job.pc = "images" => job.imageIndex = Len(job.images) + 1

\* On one page an instruction was skipped and another gave the page's first
\* image, a JPEG.
C21_Witness ==
    \E K \in 1..Len(job.results) :
        /\ job.route = "extract"
        /\ job.skipped[K] = 1 /\ Len(job.results[K].images) = 1
        /\ job.results[K].images[1].filename = ImageFilename(K, 1, "jpg")

\* Under ArchiveSpec.
\* C29: an error the archive raises while a convert or extract response is
\* packaged goes to the error-handling middleware through next(error) and
\* never ends the process as an uncaught exception.
C29_ArchiveErrorHandled ==
    job.archiveError # "none" =>
        /\ job.archiveError = "caught"
        /\ job.pc \in {"failed", "done"}

\* C30: the walk over a page's instructions always comes to its end: once
\* extractImagesFromPage has started on a page, the page is eventually
\* completed and the page loop goes on.
C30_ImageWalkTerminates ==
    (job.pc = "images") ~> (job.pc = "pages")

(***************************************************************************)
(* Properties of the service functions (FnSpec).                           *)
(***************************************************************************)
\* The fragments of a list of items, in order.
Fragments(items) == SelectSeq(items, LAMBDA it : it.str)

\* C12: the number of line breaks in the text equals the number of pairs of
\* consecutive fragments whose baselines differ by more than 5, and the text
\* holds the fragments in order.
C12_BreakPerLineChange ==
    (call.fn = "extractTextFromPage" /\ call.done) =>
        LET f == Fragments(call.arg)
            far == { k \in 1..(Len(f) - 1) : Abs(f[k].y - f[k + 1].y) > 5 }
            breaks == { x \in 1..Len(call.out) : call.out[x] = "\n" }
        IN  Cardinality(breaks) = Cardinality(far)

\* C13: an image object whose bytes begin with FF D8 comes back tagged jpg
\* with its bytes unchanged; any other comes back tagged png.
C13_JpegPassThrough ==
    (call.fn = "convertImageObjToBuffer" /\ call.done) =>
        LET o == call.arg
        IN  IF o.hasData /\ Len(o.data) >= 2 /\ o.data[1] = 255 /\ o.data[2] = 216
            THEN call.out.format = "jpg" /\ call.out.buffer = o.data
            ELSE call.out.format = "png"

\* C14: convertImagesToPdf on n >= 1 valid images returns a document of n
\* pages; page k has the pixel width and height of image k and shows image
\* k at the origin over the whole page.
C14_PagePerImage ==
    (/\ call.fn = "convertImagesToPdf" /\ call.done
     /\ call.arg # <<>>
     /\ \A k \in 1..Len(call.arg) : call.arg[k] \in GoodImages) =>
        /\ call.out.ok
        /\ call.out.buffer.sig = PdfSig
        /\ Len(call.out.buffer.pages) = Len(call.arg)
        /\ \A k \in 1..Len(call.arg) :
              LET page == call.out.buffer.pages[k]
                  pic == call.arg[k].buffer
              IN  /\ page.width = pic.width /\ page.height = pic.height
                  /\ page.image.buffer = pic
                  /\ page.image.x = 0 /\ page.image.y = 0
                  /\ page.image.width = page.width /\ page.image.height = page.height

\* Three valid images of different sizes came back as three pages.
C14_Witness ==
    /\ call.fn = "convertImagesToPdf" /\ call.done /\ call.out.ok
    /\ Len(call.arg) = 3
    /\ Len(call.out.buffer.pages) = 3
    /\ call.arg[1].buffer.width # call.arg[2].buffer.width

\* The images of a list that addImageToPdf cannot embed.
Embeddable(image) ==
    \/ image.mimetype = "image/png" /\ image.buffer.format = "png"
    \/ image.mimetype = "image/jpeg" /\ image.buffer.format = "jpeg"
FirstFailing(images) ==
    CHOOSE n \in 1..Len(images) :
        /\ ~Embeddable(images[n])
        /\ \A m \in 1..(n - 1) : Embeddable(images[m])

\* C15: when an image cannot be embedded, convertImagesToPdf fails with an
\* error that names the index (from 1) of the first such image; the images
\* after it are not reached and no buffer is returned.
C15_EmbedFailureAborts ==
    (/\ call.fn = "convertImagesToPdf" /\ call.done
     /\ \E n \in 1..Len(call.arg) : ~Embeddable(call.arg[n])) =>
        LET n == FirstFailing(call.arg)
        IN  /\ ~call.out.ok
            /\ call.out.buffer = NoBuffer
            /\ call.out.attempted = n
            /\ call.out.error.texts[1] = "Failed to process image"
            /\ call.out.error.index = n
            /\ call.out.error.name = call.arg[n].originalname

\* The second of three images could not be embedded: the first had its page,
\* the third was never reached, nothing is returned.
C15_Witness ==
    /\ call.fn = "convertImagesToPdf" /\ call.done /\ ~call.out.ok
    /\ Len(call.arg) = 3
    /\ Embeddable(call.arg[1]) /\ ~Embeddable(call.arg[2])
    /\ call.out.attempted = 2 /\ call.out.error.index = 2
    /\ call.out.buffer = NoBuffer

C18_PageBreaksBetweenPages ==
    (call.fn = "buildDocxContent" /\ call.done
       /\ Len(call.arg.extractedContent) >= 1) =>
        LET n == Len(call.arg.extractedContent)
            out == call.out
            breaks == { j \in 1..Len(out) : out[j].kind = "break" }
        IN  /\ Cardinality(breaks) =
                  IF call.arg.preservePageBreaks THEN n - 1 ELSE 0
            /\ \A j \in breaks :
                  /\ out[j].page < n
                  /\ j < Len(out) /\ out[j + 1].page = out[j].page + 1
                  /\ \A m \in 1..(j - 1) : out[m].page <= out[j].page
            /\ call.arg.preservePageBreaks =>
                  \A i \in 1..(n - 1) : \E j \in breaks : out[j].page = i

\* Three pages with text and images were built with two page breaks.
C18_Witness ==
    /\ call.fn = "buildDocxContent" /\ call.done
    /\ Len(call.arg.extractedContent) = 3
    /\ call.arg.preservePageBreaks /\ call.arg.includeImages
    /\ Cardinality({ j \in 1..Len(call.out) : call.out[j].kind = "break" }) = 2
    /\ \E j \in 1..Len(call.out) : call.out[j].kind = "image"

\* C19: for a buffer of at least 5 bytes validatePdfComplexity estimates the
\* page count as the larger of the number of page markers in the scanned
\* window (1 when there is none) and the page-count field found in the
\* window (0 when there is none), and answers invalid exactly when the
\* estimate is greater than maxPages; a buffer of fewer than 5 bytes is
\* invalid.
C19_PageEstimate ==
    (call.fn = "validatePdfComplexity" /\ call.done) =>
        LET window == 1..Min(Len(call.arg.tokens), ScanWindow)
            markers == Cardinality({ i \in window : call.arg.tokens[i] = PageTok })
            fields == { i \in window : call.arg.tokens[i].t = "Count" }
            a == IF markers = 0 THEN 1 ELSE markers
            b == IF fields = {} THEN 0 ELSE call.arg.tokens[CHOOSE i \in fields : \A j \in fields : i <= j].n
        IN  IF Len(call.arg.buffer) < 5 THEN ~call.out.valid
            ELSE /\ call.out.pageCount >= a /\ call.out.pageCount >= b
                 /\ call.out.pageCount \in {a, b}
                 /\ call.out.valid <=> ~(call.out.pageCount > call.arg.maxPages)

\* A file whose page-count field equals maxPages, above its marker count,
\* and that has a token past the window, was accepted.
C19_Witness ==
    /\ call.fn = "validatePdfComplexity" /\ call.done
    /\ Len(call.arg.buffer) >= 5
    /\ Len(call.arg.tokens) > ScanWindow
    /\ call.arg.tokens[1] = PageTok /\ call.arg.tokens[2] = CountTok(2)
    /\ call.arg.maxPages = 2
    /\ call.out.valid /\ call.out.pageCount = 2

\* The content-side conditions of a valid result: at least 8 bytes, a
\* detected type among the allowed ones, and a declared MIME type (compared
\* in lower case) of the detected type.
ContentMatchesDeclared(arg) ==
    /\ Len(arg.buffer) >= 8
    /\ DetectFileType(arg.buffer) \in arg.allowedTypes
    /\ LowerMime(arg.mimeType) \in Definition(DetectFileType(arg.buffer)).mimeTypes

\* C20 as stated: validateFile answers valid only if the buffer has at least
\* 8 bytes, the detected type is allowed, the declared MIME type belongs to
\* the detected type, and the filename's extension belongs to the detected
\* type.
C20_ValidOnlyIfExtensionMatches ==
    (call.fn = "validateFile" /\ call.done /\ call.out.isValid) =>
        /\ ContentMatchesDeclared(call.arg)
        /\ GetExtension(call.arg.filename)
               \in Definition(DetectFileType(call.arg.buffer)).extensions

\* C20, amended: validateFile answers valid only if the buffer has at least
\* 8 bytes, the detected type is allowed, the declared MIME type belongs to
\* the detected type, and the filename either has no extension or has an
\* extension of the detected type.
C20_ValidOnlyIfNoMismatch ==
    (call.fn = "validateFile" /\ call.done /\ call.out.isValid) =>
        /\ ContentMatchesDeclared(call.arg)
        /\ \/ GetExtension(call.arg.filename) = <<>>
           \/ GetExtension(call.arg.filename)
                  \in Definition(DetectFileType(call.arg.buffer)).extensions

\* A PNG file named without an extension was found valid.
C20_Witness ==
    /\ call.fn = "validateFile" /\ call.done /\ call.out.isValid
    /\ call.out.detectedType = "png"
    /\ call.arg.filename = NameNoExt

(***************************************************************************)
(* Properties of POST /images-to-pdf (ImagesSpec).                         *)
(***************************************************************************)
\* C17: a request with more than 20 images is answered with an error and
\* convertImagesToPdf is never called for it; a request with 1 to 20 valid
\* images is never refused and ends with convertImagesToPdf called and the
\* document sent.
C17_AtMostTwentyImages ==
    call.fn = "images-to-pdf" =>
        /\ Len(call.files) > 20 =>
              /\ ~call.composed /\ call.pc = "done"
              /\ call.statusCode = 400 /\ call.by = "upload"
        /\ (/\ Len(call.files) \in 1..20
            /\ \A k \in 1..Len(call.files) : call.files[k] \in GoodImages) =>
              /\ call.pc \in {"validate", "handler", "done"}
              /\ call.statusCode \in {0, 200}
              /\ call.pc = "done" =>
                    (call.composed /\ Len(call.body.pages) = Len(call.files))

\* A request of 21 valid images was refused before composition.
C17_Witness ==
    /\ call.fn = "images-to-pdf" /\ call.pc = "done"
    /\ Len(call.files) = 21
    /\ \A k \in 1..Len(call.files) : call.files[k] \in GoodImages
    /\ call.statusCode = 400 /\ ~call.composed


====
